---------------------------- MODULE Spec2Model ----------------------------
(***************************************************************************)
(* The APNs response types of a2 (src/response.rs): the Response struct,   *)
(* the ErrorBody and ErrorReason types with their derived Deserialize,     *)
(* the Display text of every ErrorReason, and the parsing unit test.       *)
(*                                                                         *)
(* A JSON body is a sequence of (key, value) fields in text order with     *)
(* pairwise distinct keys.  A u64 is four 16-bit limbs, least significant  *)
(* first, so that the 64-bit width is kept; a JSON number is its token     *)
(* (sign, decimal digits, fraction/exponent flag).                         *)
(***************************************************************************)
EXTENDS Integers, Sequences, FiniteSets, TLC

\* The largest number of fields of a body.
MaxFields == 3

----------------------------------------------------------------------------
\* u64 and Option<u64>

LimbBase == 65536

U64Zero == <<0, 0, 0, 0>>

None == [some |-> FALSE]

Some(x) == [some |-> TRUE, v |-> x]

\* significand * 10 + digit, with the carry out of the top limb (overflow).
MulAdd10(x, d) ==
    LET c1 == x[1] * 10 + d
        c2 == x[2] * 10 + (c1 \div LimbBase)
        c3 == x[3] * 10 + (c2 \div LimbBase)
        c4 == x[4] * 10 + (c3 \div LimbBase)
    IN  [limbs |-> <<c1 % LimbBase, c2 % LimbBase, c3 % LimbBase, c4 % LimbBase>>,
         carry |-> c4 \div LimbBase]

\* x divided by ten: quotient and remainder, by long division from the top limb.
DivMod10(x) ==
    LET c4 == x[4]
        c3 == (c4 % 10) * LimbBase + x[3]
        c2 == (c3 % 10) * LimbBase + x[2]
        c1 == (c2 % 10) * LimbBase + x[1]
    IN  [quot |-> <<c1 \div 10, c2 \div 10, c3 \div 10, c4 \div 10>>,
         rem |-> c1 % 10]

\* The decimal digits of a u64, as serde_json writes a number.
RECURSIVE ToDigits(_)
ToDigits(x) ==
    LET qr == DivMod10(x)
    IN  IF qr.quot = U64Zero THEN <<qr.rem>>
        ELSE Append(ToDigits(qr.quot), qr.rem)

\* The integer part of a number token, accumulated digit by digit; a carry
\* out of 64 bits makes the reader fall back to a float.
RECURSIVE ParseSignificand(_, _, _)
ParseSignificand(digits, i, acc) ==
    IF i > Len(digits) THEN [overflow |-> FALSE, value |-> acc]
    ELSE LET m == MulAdd10(acc, digits[i])
         IN  IF m.carry # 0 THEN [overflow |-> TRUE, value |-> U64Zero]
             ELSE ParseSignificand(digits, i + 1, m.limbs)

----------------------------------------------------------------------------
\* JSON values: strings, number tokens, booleans and null.

NoDigits == << >>

JString(s) == [t |-> "string", s |-> s, neg |-> FALSE, digits |-> NoDigits, frac |-> FALSE]

JNumber(neg, digits, frac) ==
    [t |-> "number", s |-> "", neg |-> neg, digits |-> digits, frac |-> frac]

JBool(b) == [t |-> "bool", s |-> IF b THEN "true" ELSE "false",
             neg |-> FALSE, digits |-> NoDigits, frac |-> FALSE]

JNull == [t |-> "null", s |-> "", neg |-> FALSE, digits |-> NoDigits, frac |-> FALSE]

\* The kind of number the reader produces for a token: U64, I64 or F64.
ParseNumber(tok) ==
    LET sig == ParseSignificand(tok.digits, 1, U64Zero)
    IN  IF tok.frac \/ sig.overflow THEN [kind |-> "F64", value |-> U64Zero]
        ELSE IF ~tok.neg THEN [kind |-> "U64", value |-> sig.value]
        ELSE IF sig.value = U64Zero
                \/ (sig.value[4] >= 32768 /\ sig.value # <<0, 0, 0, 32768>>)
             THEN [kind |-> "F64", value |-> U64Zero]
        ELSE [kind |-> "I64", value |-> sig.value]

----------------------------------------------------------------------------
\* Results of deserialization

Error(kind, what) == [kind |-> kind, what |-> what]

\* Ok carries the value; Err carries the error and no value.
Ok(v) == [ok |-> TRUE, value |-> v]

Err(e) == [ok |-> FALSE, err |-> e]

----------------------------------------------------------------------------
\* ErrorReason: the variants in declaration order, with the name each one
\* is matched by on the wire.

VARIANTS ==
    << [wire |-> "BadCollapseId", variant |-> "ErrorReason::BadCollapseId"],
       [wire |-> "BadDeviceToken", variant |-> "ErrorReason::BadDeviceToken"],
       [wire |-> "BadExpirationDate", variant |-> "ErrorReason::BadExpirationDate"],
       [wire |-> "BadMessageId", variant |-> "ErrorReason::BadMessageId"],
       [wire |-> "BadPriority", variant |-> "ErrorReason::BadPriority"],
       [wire |-> "BadTopic", variant |-> "ErrorReason::BadTopic"],
       [wire |-> "DeviceTokenNotForTopic", variant |-> "ErrorReason::DeviceTokenNotForTopic"],
       [wire |-> "DuplicateHeaders", variant |-> "ErrorReason::DuplicateHeaders"],
       [wire |-> "IdleTimeout", variant |-> "ErrorReason::IdleTimeout"],
       [wire |-> "MissingDeviceToken", variant |-> "ErrorReason::MissingDeviceToken"],
       [wire |-> "MissingTopic", variant |-> "ErrorReason::MissingTopic"],
       [wire |-> "PayloadEmpty", variant |-> "ErrorReason::PayloadEmpty"],
       [wire |-> "TopicDisallowed", variant |-> "ErrorReason::TopicDisallowed"],
       [wire |-> "BadCertificate", variant |-> "ErrorReason::BadCertificate"],
       [wire |-> "BadCertificateEnvironment", variant |-> "ErrorReason::BadCertificateEnvironment"],
       [wire |-> "ExpiredProviderToken", variant |-> "ErrorReason::ExpiredProviderToken"],
       [wire |-> "Forbidden", variant |-> "ErrorReason::Forbidden"],
       [wire |-> "InvalidProviderToken", variant |-> "ErrorReason::InvalidProviderToken"],
       [wire |-> "MissingProviderToken", variant |-> "ErrorReason::MissingProviderToken"],
       [wire |-> "BadPath", variant |-> "ErrorReason::BadPath"],
       [wire |-> "MethodNotAllowed", variant |-> "ErrorReason::MethodNotAllowed"],
       [wire |-> "Unregistered", variant |-> "ErrorReason::Unregistered"],
       [wire |-> "PayloadTooLarge", variant |-> "ErrorReason::PayloadTooLarge"],
       [wire |-> "TooManyProviderTokenUpdates", variant |-> "ErrorReason::TooManyProviderTokenUpdates"],
       [wire |-> "TooManyRequests", variant |-> "ErrorReason::TooManyRequests"],
       [wire |-> "InternalServerError", variant |-> "ErrorReason::InternalServerError"],
       [wire |-> "ServiceUnavailable", variant |-> "ErrorReason::ServiceUnavailable"],
       [wire |-> "Shutdown", variant |-> "ErrorReason::Shutdown"] >>

Variants == {VARIANTS[i].variant : i \in DOMAIN VARIANTS}

WireStrings == {VARIANTS[i].wire : i \in DOMAIN VARIANTS}

\* As DeserializeErrorReason, with one variant matched by a misspelt name.
DeserializeErrorReasonMisspelt(val) ==
    IF val.t # "string" THEN Err(Error("InvalidType", val.t))
    ELSE LET name(i) == IF VARIANTS[i].wire = "Shutdown" THEN "ShutDown"
                        ELSE VARIANTS[i].wire
             hits == {i \in DOMAIN VARIANTS : name(i) = val.s}
         IN  IF hits = {} THEN Err(Error("UnknownVariant", val.s))
             ELSE Ok(VARIANTS[CHOOSE i \in hits : \A j \in hits : i <= j].variant)

\* As DeserializeErrorReason, with the last variant as a catch-all for the
\* strings that match no name.
DeserializeErrorReasonOther(val) ==
    IF val.t # "string" THEN Err(Error("InvalidType", val.t))
    ELSE LET hits == {i \in DOMAIN VARIANTS : VARIANTS[i].wire = val.s}
         IN  IF hits = {} THEN Ok(VARIANTS[Len(VARIANTS)].variant)
             ELSE Ok(VARIANTS[CHOOSE i \in hits : \A j \in hits : i <= j].variant)

\* Deserialize for ErrorReason: a string is matched exactly against the
\* variant names; anything else is an error.
DeserializeErrorReason(val) ==
    IF val.t # "string" THEN Err(Error("InvalidType", val.t))
    ELSE LET hits == {i \in DOMAIN VARIANTS : VARIANTS[i].wire = val.s}
         IN  IF hits = {} THEN Err(Error("UnknownVariant", val.s))
             ELSE Ok(VARIANTS[CHOOSE i \in hits : \A j \in hits : i <= j].variant)

\* As DeserializeTimestamp, for a field of type Option<u32>.
DeserializeTimestampU32(val) ==
    IF val.t = "null" THEN Ok(None)
    ELSE IF val.t # "number" THEN Err(Error("InvalidType", val.t))
    ELSE LET n == ParseNumber(val)
         IN  CASE n.kind = "U64" /\ n.value[3] = 0 /\ n.value[4] = 0 -> Ok(Some(n.value))
               [] n.kind = "U64" -> Err(Error("InvalidValue", "integer"))
               [] n.kind = "I64" -> Err(Error("InvalidValue", "integer"))
               [] OTHER -> Err(Error("InvalidType", "float"))

\* As DeserializeTimestamp, with a value that is no number read as None.
DeserializeTimestampLenient(val) ==
    IF val.t # "number" THEN Ok(None)
    ELSE LET n == ParseNumber(val)
         IN  CASE n.kind = "U64" -> Ok(Some(n.value))
               [] OTHER -> Ok(None)

\* Deserialize for Option<u64>: null is None, a number that reads as a u64
\* is Some, everything else is an error.
DeserializeTimestamp(val) ==
    IF val.t = "null" THEN Ok(None)
    ELSE IF val.t # "number" THEN Err(Error("InvalidType", val.t))
    ELSE LET n == ParseNumber(val)
         IN  CASE n.kind = "U64" -> Ok(Some(n.value))
               [] n.kind = "I64" -> Err(Error("InvalidValue", "integer"))
               [] OTHER -> Err(Error("InvalidType", "float"))

----------------------------------------------------------------------------
\* ErrorBody

ErrorBody(reason, timestamp) == [reason |-> reason, timestamp |-> timestamp]

Field(k, v) == [key |-> k, val |-> v]

\* As DeserializeUnknown, with unknown fields denied.
DeserializeUnknownDenied(key, val) == Err(Error("UnknownField", key))

\* A key that is neither reason nor timestamp: its value is skipped,
\* whatever it is.
DeserializeUnknown(key, val) == Ok(val)

\* As Finish, with a default reason for a body that has none.
FinishDefaultReason(reason, timestamp) ==
    Ok(ErrorBody(IF reason.some THEN reason.v ELSE VARIANTS[1].variant,
                 IF timestamp.some THEN timestamp.v ELSE None))

\* As Finish, with the timestamp a required field.
FinishTimestampRequired(reason, timestamp) ==
    IF ~reason.some THEN Err(Error("MissingField", "reason"))
    ELSE IF ~timestamp.some THEN Err(Error("MissingField", "timestamp"))
    ELSE Ok(ErrorBody(reason.v, timestamp.v))

\* The end of the visit: a missing reason is an error, a missing
\* timestamp is None.
Finish(reason, timestamp) ==
    IF ~reason.some THEN Err(Error("MissingField", "reason"))
    ELSE Ok(ErrorBody(reason.v, IF timestamp.some THEN timestamp.v ELSE None))

\* Deserialize for ErrorBody: the fields are visited in order; reason and
\* timestamp are read into their slots, any other key is skipped, and the
\* first error ends the visit.
RECURSIVE VisitMap(_, _, _, _)
VisitMap(fields, i, reason, timestamp) ==
    IF i > Len(fields) THEN Finish(reason, timestamp)
    ELSE LET f == fields[i]
         IN  CASE f.key = "reason" ->
                    IF reason.some THEN Err(Error("DuplicateField", "reason"))
                    ELSE LET r == DeserializeErrorReason(f.val)
                         IN  IF ~r.ok THEN Err(r.err)
                             ELSE VisitMap(fields, i + 1, Some(r.value), timestamp)
               [] f.key = "timestamp" ->
                    IF timestamp.some THEN Err(Error("DuplicateField", "timestamp"))
                    ELSE LET t == DeserializeTimestamp(f.val)
                         IN  IF ~t.ok THEN Err(t.err)
                             ELSE VisitMap(fields, i + 1, reason, Some(t.value))
               [] OTHER ->
                    LET u == DeserializeUnknown(f.key, f.val)
                    IN  IF ~u.ok THEN Err(u.err)
                        ELSE VisitMap(fields, i + 1, reason, timestamp)

from_str(fields) == VisitMap(fields, 1, None, None)

----------------------------------------------------------------------------
\* Display for ErrorReason: one arm per variant.  The grave accents of the
\* texts are written as apostrophes (no text has an apostrophe of its own).

DisplayArms ==
    << [variant |-> "ErrorReason::BadCollapseId",
          text |-> "The collapse identifier exceeds the maximum allowed size."],
       [variant |-> "ErrorReason::BadDeviceToken",
          text |-> "The specified device token was bad. Verify that the request contains a valid token and that the token matches the environment."],
       [variant |-> "ErrorReason::BadExpirationDate",
          text |-> "The 'apns_expiration' in 'NotificationOptions' is bad."],
       [variant |-> "ErrorReason::BadMessageId",
          text |-> "The 'apns_id' in 'NotificationOptions' is bad."],
       [variant |-> "ErrorReason::BadPriority",
          text |-> "The 'apns_priority' in 'NotificationOptions' is bad."],
       [variant |-> "ErrorReason::BadTopic",
          text |-> "The 'apns_topic' in 'NotificationOptions' is bad."],
       [variant |-> "ErrorReason::DeviceTokenNotForTopic",
          text |-> "The device token does not match the specified topic."],
       [variant |-> "ErrorReason::DuplicateHeaders",
          text |-> "One or more headers were repeated."],
       [variant |-> "ErrorReason::IdleTimeout",
          text |-> "Idle time out."],
       [variant |-> "ErrorReason::MissingDeviceToken",
          text |-> "The device token is not specified in the payload."],
       [variant |-> "ErrorReason::MissingTopic",
          text |-> "The 'apns_topic' of the 'NotificationOptions' was not specified and was required. The 'apns_topic' header is mandatory when the client is connected using the 'CertificateConnector' and the included PKCS12 file includes multiple topics, or when using the 'TokenConnector'."],
       [variant |-> "ErrorReason::PayloadEmpty",
          text |-> "The message payload was empty."],
       [variant |-> "ErrorReason::TopicDisallowed",
          text |-> "Pushing to this topic is not allowed."],
       [variant |-> "ErrorReason::BadCertificate",
          text |-> "The certificate was bad."],
       [variant |-> "ErrorReason::BadCertificateEnvironment",
          text |-> "The client certificate was for the wrong environment."],
       [variant |-> "ErrorReason::ExpiredProviderToken",
          text |-> "The provider token is stale and a new token should be generated."],
       [variant |-> "ErrorReason::Forbidden",
          text |-> "The specified action is not allowed."],
       [variant |-> "ErrorReason::InvalidProviderToken",
          text |-> "The provider token is not valid or the token signature could not be verified."],
       [variant |-> "ErrorReason::MissingProviderToken",
          text |-> "No provider certificate was used to connect to APNs and Authorization header was missing or no provider token was specified."],
       [variant |-> "ErrorReason::BadPath",
          text |-> "The request path value is bad."],
       [variant |-> "ErrorReason::MethodNotAllowed",
          text |-> "The request method was not 'POST'."],
       [variant |-> "ErrorReason::Unregistered",
          text |-> "The device token is inactive for the specified topic. You should stop sending notifications to this token."],
       [variant |-> "ErrorReason::PayloadTooLarge",
          text |-> "The message payload was too large (4096 bytes)"],
       [variant |-> "ErrorReason::TooManyProviderTokenUpdates",
          text |-> "The provider token is being updated too often."],
       [variant |-> "ErrorReason::TooManyRequests",
          text |-> "Too many requests were made consecutively to the same device token."],
       [variant |-> "ErrorReason::InternalServerError",
          text |-> "An internal server error occurred."],
       [variant |-> "ErrorReason::ServiceUnavailable",
          text |-> "The service is unavailable."],
       [variant |-> "ErrorReason::Shutdown",
          text |-> "The server is shutting down."] >>

\* As Display, with the text of one arm pasted into the next.
DisplayPasted(reason) ==
    LET arms == {i \in DOMAIN DisplayArms : DisplayArms[i].variant = reason}
        arm == CHOOSE i \in arms : \A j \in arms : i <= j
    IN  IF DisplayArms[arm].variant = "ErrorReason::BadTopic"
        THEN DisplayArms[arm - 1].text
        ELSE DisplayArms[arm].text

Display(reason) ==
    LET arms == {i \in DOMAIN DisplayArms : DisplayArms[i].variant = reason}
    IN  DisplayArms[CHOOSE i \in arms : \A j \in arms : i <= j].text

----------------------------------------------------------------------------
\* The unit test: the table of (variant, wire string, timestamp).

\* 1508249865488u64
TestTimestamp == <<36112, 10930, 351, 0>>

errors ==
    << <<"ErrorReason::BadCollapseId", "BadCollapseId", None>>,
       <<"ErrorReason::BadDeviceToken", "BadDeviceToken", None>>,
       <<"ErrorReason::BadExpirationDate", "BadExpirationDate", None>>,
       <<"ErrorReason::BadMessageId", "BadMessageId", None>>,
       <<"ErrorReason::BadPriority", "BadPriority", None>>,
       <<"ErrorReason::BadTopic", "BadTopic", None>>,
       <<"ErrorReason::DeviceTokenNotForTopic", "DeviceTokenNotForTopic", None>>,
       <<"ErrorReason::DuplicateHeaders", "DuplicateHeaders", None>>,
       <<"ErrorReason::IdleTimeout", "IdleTimeout", None>>,
       <<"ErrorReason::MissingDeviceToken", "MissingDeviceToken", None>>,
       <<"ErrorReason::MissingTopic", "MissingTopic", None>>,
       <<"ErrorReason::PayloadEmpty", "PayloadEmpty", None>>,
       <<"ErrorReason::TopicDisallowed", "TopicDisallowed", None>>,
       <<"ErrorReason::BadCertificate", "BadCertificate", None>>,
       <<"ErrorReason::BadCertificateEnvironment", "BadCertificateEnvironment", None>>,
       <<"ErrorReason::ExpiredProviderToken", "ExpiredProviderToken", None>>,
       <<"ErrorReason::Forbidden", "Forbidden", None>>,
       <<"ErrorReason::InvalidProviderToken", "InvalidProviderToken", None>>,
       <<"ErrorReason::MissingProviderToken", "MissingProviderToken", None>>,
       <<"ErrorReason::BadPath", "BadPath", None>>,
       <<"ErrorReason::MethodNotAllowed", "MethodNotAllowed", None>>,
       <<"ErrorReason::Unregistered", "Unregistered", Some(TestTimestamp)>>,
       <<"ErrorReason::PayloadTooLarge", "PayloadTooLarge", None>>,
       <<"ErrorReason::TooManyProviderTokenUpdates", "TooManyProviderTokenUpdates", None>>,
       <<"ErrorReason::TooManyRequests", "TooManyRequests", None>>,
       <<"ErrorReason::InternalServerError", "InternalServerError", None>>,
       <<"ErrorReason::ServiceUnavailable", "ServiceUnavailable", None>>,
       <<"ErrorReason::Shutdown", "Shutdown", None>> >>

\* json!({"reason": wire}) or json!({"reason": wire, "timestamp": ts}),
\* written by to_string: the keys in order, the number as its digits.
to_string(wire, ts) ==
    IF ts.some
    THEN <<Field("reason", JString(wire)),
           Field("timestamp", JNumber(FALSE, ToDigits(ts.v), FALSE))>>
    ELSE <<Field("reason", JString(wire))>>

----------------------------------------------------------------------------
\* Response

SuccessCode == 200

StatusCodes == {200, 400, 403, 405, 410, 413, 429, 500, 503}

Response(error, apns_id, code) == [error |-> error, apns_id |-> apns_id, code |-> code]

\* As ResponseError, with the parsed body kept whatever the status code.
ResponseErrorAnyCode(code, outcome) ==
    IF outcome.some /\ outcome.v.ok THEN Some(outcome.v.value) ELSE None

\* The error of a response assembled from a status code and the outcome of
\* parsing the body, when there was one.
ResponseError(code, outcome) ==
    IF code = SuccessCode THEN None
    ELSE IF outcome.some THEN Some(outcome.v.value)
    ELSE None

----------------------------------------------------------------------------
\* Inputs

UnknownStrings ==
    {"NotARealReason", "badDeviceToken", "UNREGISTERED", "Unregistered ",
     "ErrorReason::Unregistered", ""}

ReasonValues ==
    {JString(s) : s \in WireStrings \cup UnknownStrings}
        \cup {JNull, JNumber(FALSE, <<4, 1, 0>>, FALSE)}

\* 18446744073709551615, the largest u64
U64MaxDigits == <<1, 8, 4, 4, 6, 7, 4, 4, 0, 7, 3, 7, 0, 9, 5, 5, 1, 6, 1, 5>>

TimestampValues ==
    {JNumber(FALSE, <<0>>, FALSE),
     JNumber(FALSE, <<1, 2, 3>>, FALSE),
     JNumber(FALSE, <<1, 5, 0, 8, 2, 4, 9, 8, 6, 5, 4, 8, 8>>, FALSE),
     JNumber(FALSE, U64MaxDigits, FALSE),
     JNumber(FALSE, <<1, 8, 4, 4, 6, 7, 4, 4, 0, 7, 3, 7, 0, 9, 5, 5, 1, 6, 1, 6>>, FALSE),
     JNumber(TRUE, <<1>>, FALSE),
     JNumber(FALSE, <<1>>, TRUE),
     JString("1508249865488"),
     JBool(TRUE),
     JNull}

ExtraKeys == {"Reason", "apns-id"}

ExtraValues == {JString("Shutdown"), JNumber(FALSE, <<7>>, FALSE)}

Keys == {"reason", "timestamp"} \cup ExtraKeys

ValuesFor(k) ==
    IF k = "reason" THEN ReasonValues
    ELSE IF k = "timestamp" THEN TimestampValues
    ELSE ExtraValues

\* The bodies of at most n fields whose keys are distinct and among keys.
RECURSIVE BodiesOver(_, _)
BodiesOver(keys, n) ==
    IF n = 0 THEN {<< >>}
    ELSE {<< >>} \cup
         UNION {{<<Field(k, v)>> \o rest : v \in ValuesFor(k),
                                           rest \in BodiesOver(keys \ {k}, n - 1)}
                : k \in keys}

Bodies == BodiesOver(Keys, MaxFields)

ApnsIds == {None, Some("2B8F3A0C-6E1D-4C55-9A7E-0F4D1B2C3E4F")}

----------------------------------------------------------------------------
\* State

VARIABLES
    pc,             \* what the caller did last
    body,           \* Some(fields): the body at hand
    parsed,         \* Some(result): the outcome of from_str on the body
    response,       \* Some(Response)
    shown,          \* Some([reason, text]): a reason and its Display text
    i,              \* the unit test: the entries done
    response_body,  \* the unit test: Some(result of from_str)
    expected_body   \* the unit test: Some(ErrorBody expected)

vars == <<pc, body, parsed, response, shown, i, response_body, expected_body>>

Init ==
    /\ pc = "idle"
    /\ body = None
    /\ parsed = None
    /\ response = None
    /\ shown = None
    /\ i = 0
    /\ response_body = None
    /\ expected_body = None

\* serde_json::from_str::<ErrorBody> on a body.
FromStr ==
    /\ pc = "idle"
    /\ \E b \in Bodies :
        /\ body' = Some(b)
        /\ parsed' = Some(from_str(b))
    /\ pc' = "parsed"
    /\ UNCHANGED <<response, shown, i, response_body, expected_body>>

\* A response is assembled from the status code, the apns-id header and the
\* parsed body, if there was one; the body's bytes are used up.  With a
\* failure status and a body that did not parse, the error is handed on and
\* no response is made.
Assemble ==
    /\ pc \in {"idle", "parsed"}
    /\ \E code \in StatusCodes, apns_id \in ApnsIds :
        IF code # SuccessCode /\ parsed.some /\ ~parsed.v.ok
        THEN /\ pc' = "failed"
             /\ response' = None
        ELSE /\ pc' = "assembled"
             /\ response' = Some(Response(ResponseError(code, parsed), apns_id, code))
    /\ body' = None
    /\ UNCHANGED <<parsed, shown, i, response_body, expected_body>>

\* A reason is formatted.
Fmt ==
    /\ pc = "idle"
    /\ \E reason \in Variants :
        shown' = Some([reason |-> reason, text |-> Display(reason)])
    /\ pc' = "shown"
    /\ UNCHANGED <<body, parsed, response, i, response_body, expected_body>>

\* test_error_response_parsing, one entry of the table per step: the body is
\* built and written, read back and compared with the expected ErrorBody.
\* A failed unwrap or assert_eq panics.
TestStep ==
    /\ pc \in {"idle", "test"}
    /\ i < Len(errors)
    /\ LET error == errors[i + 1]
           response_string == to_string(error[2], error[3])
           got == from_str(response_string)
           want == ErrorBody(error[1], error[3])
       IN  /\ response_body' = Some(got)
           /\ expected_body' = Some(want)
           /\ pc' = IF got.ok /\ got.value = want THEN "test" ELSE "panicked"
    /\ i' = i + 1
    /\ UNCHANGED <<body, parsed, response, shown>>

\* The caller starts over.
Reset ==
    /\ pc \in {"parsed", "assembled", "failed", "shown", "test"}
    /\ pc' = "idle"
    /\ body' = None
    /\ parsed' = None
    /\ response' = None
    /\ shown' = None
    /\ i' = 0
    /\ response_body' = None
    /\ expected_body' = None

Next ==
    \/ FromStr
    \/ Assemble
    \/ Fmt
    \/ TestStep
    \/ Reset

Spec == Init /\ [][Next]_vars

----------------------------------------------------------------------------
\* What the properties are stated with.

\* The wire strings and their variants as the unit test's table gives them.
KnownWire == {errors[j][2] : j \in DOMAIN errors}

VariantOfWire(w) == errors[CHOOSE j \in DOMAIN errors : errors[j][2] = w][1]

HasKey(fields, k) == \E j \in DOMAIN fields : fields[j].key = k

IndexOf(fields, k) == CHOOSE j \in DOMAIN fields : fields[j].key = k

ValueOf(fields, k) == fields[IndexOf(fields, k)].val

\* The digits are at most 18446744073709551615.
FitsU64(digits) ==
    \/ Len(digits) < Len(U64MaxDigits)
    \/ /\ Len(digits) = Len(U64MaxDigits)
       /\ \/ digits = U64MaxDigits
          \/ \E j \in DOMAIN digits :
                /\ digits[j] < U64MaxDigits[j]
                /\ \A k \in 1..(j - 1) : digits[k] = U64MaxDigits[k]

IsUnsignedInteger(val) ==
    val.t = "number" /\ ~val.neg /\ ~val.frac /\ FitsU64(val.digits)

\* A body was parsed and is still at hand.
Parsed == pc = "parsed" /\ body.some /\ parsed.some

HasKnownReason(fields) ==
    /\ HasKey(fields, "reason")
    /\ ValueOf(fields, "reason").t = "string"
    /\ ValueOf(fields, "reason").s \in KnownWire

HasUnknownReason(fields) ==
    /\ HasKey(fields, "reason")
    /\ ValueOf(fields, "reason").t = "string"
    /\ ValueOf(fields, "reason").s \notin KnownWire

\* The timestamp field is there and is neither an unsigned integer nor null.
BadTimestamp(fields) ==
    /\ HasKey(fields, "timestamp")
    /\ ~IsUnsignedInteger(ValueOf(fields, "timestamp"))
    /\ ValueOf(fields, "timestamp").t # "null"

BadTimestampBefore(fields, k) ==
    BadTimestamp(fields) /\ IndexOf(fields, "timestamp") < IndexOf(fields, k)

TypeErrors == {"InvalidType", "InvalidValue"}

----------------------------------------------------------------------------
\* C1: every one of the 28 variants comes back from its wire string.  The
\* unit test never panics and each entry it has done parsed to the entry's
\* variant and timestamp; a body whose only field is the reason W parses to
\* the variant the table pairs with W; and the table pairs the 28 variants
\* with 28 wire strings one to one.
C1_RoundTrip ==
    /\ pc # "panicked"
    /\ response_body.some =>
          /\ response_body.v.ok
          /\ response_body.v.value.reason = errors[i][1]
          /\ response_body.v.value = expected_body.v
    /\ \A w \in KnownWire :
          (Parsed /\ body.v = <<Field("reason", JString(w))>>) =>
              /\ parsed.v.ok
              /\ parsed.v.value = ErrorBody(VariantOfWire(w), None)
    /\ Len(errors) = 28
    /\ Cardinality(Variants) = 28
    /\ {errors[j][1] : j \in DOMAIN errors} = Variants
    /\ \A j, k \in DOMAIN errors :
          j # k => errors[j][1] # errors[k][1] /\ errors[j][2] # errors[k][2]

\* The unit test has gone through its whole table.
C1_Witness == pc = "test" /\ i = Len(errors) /\ response_body.some /\ response_body.v.ok

\* C2 as stated: a body whose reason string is none of the 28 fails with the
\* unknown-reason error.
C2_Stated ==
    (Parsed /\ HasUnknownReason(body.v)) =>
        ~parsed.v.ok /\ parsed.v.err.kind = "UnknownVariant"

\* C2, amended: a body whose reason string is none of the 28 fails and gives
\* no value, whatever else it holds; the error is the unknown-reason error
\* with the offending string, unless an ill-typed timestamp comes before the
\* reason, and then it is that field's type error.
C2_UnknownReasonFails ==
    (Parsed /\ HasUnknownReason(body.v)) =>
        /\ ~parsed.v.ok
        /\ "value" \notin DOMAIN parsed.v
        /\ IF BadTimestampBefore(body.v, "reason")
           THEN parsed.v.err.kind \in TypeErrors
           ELSE parsed.v.err = Error("UnknownVariant", ValueOf(body.v, "reason").s)

C2_Witness ==
    /\ Parsed
    /\ body.v = <<Field("reason", JString("NotARealReason"))>>
    /\ parsed.v = Err(Error("UnknownVariant", "NotARealReason"))

\* C3 as stated: a body with no reason key fails with the missing-field
\* error for reason, whatever its other keys.
C3_Stated ==
    (Parsed /\ ~HasKey(body.v, "reason")) =>
        ~parsed.v.ok /\ parsed.v.err = Error("MissingField", "reason")

\* C3, amended: a body with no reason key fails and gives no value, whatever
\* its other keys; the error is the missing-field error for reason, unless
\* the body has an ill-typed timestamp, and then it is that field's type
\* error.
C3_MissingReasonFails ==
    (Parsed /\ ~HasKey(body.v, "reason")) =>
        /\ ~parsed.v.ok
        /\ "value" \notin DOMAIN parsed.v
        /\ IF BadTimestamp(body.v)
           THEN parsed.v.err.kind \in TypeErrors
           ELSE parsed.v.err = Error("MissingField", "reason")

C3_Witness ==
    /\ Parsed
    /\ body.v = <<Field("timestamp", JNumber(FALSE, <<1, 2, 3>>, FALSE))>>
    /\ parsed.v = Err(Error("MissingField", "reason"))

\* C4: a response whose code is 200 has no error, whether or not a body was
\* there and parsed.
C4_SuccessHasNoError ==
    response.some =>
        (response.v.code = SuccessCode => response.v.error = None)

C4_Witness ==
    /\ pc = "assembled"
    /\ response.some
    /\ response.v.code = SuccessCode
    /\ parsed.some
    /\ parsed.v.ok

\* C5: a body with a known reason and a timestamp that is an unsigned 64-bit
\* integer parses, to the variant of the reason and to Some of a value whose
\* digits are the digits of the body, whichever the reason is.
C5_TimestampStored ==
    (Parsed /\ HasKnownReason(body.v) /\ HasKey(body.v, "timestamp")
        /\ IsUnsignedInteger(ValueOf(body.v, "timestamp"))) =>
        /\ parsed.v.ok
        /\ parsed.v.value.reason = VariantOfWire(ValueOf(body.v, "reason").s)
        /\ parsed.v.value.timestamp.some
        /\ ToDigits(parsed.v.value.timestamp.v) = ValueOf(body.v, "timestamp").digits

\* A reason other than Unregistered with the timestamp of the unit test.
C5_Witness ==
    /\ Parsed
    /\ HasKnownReason(body.v)
    /\ ValueOf(body.v, "reason").s = "BadDeviceToken"
    /\ HasKey(body.v, "timestamp")
    /\ parsed.v.ok
    /\ parsed.v.value = ErrorBody("ErrorReason::BadDeviceToken", Some(TestTimestamp))

\* C6: a body with a known reason and no timestamp key parses, for every
\* reason, to that reason with the timestamp None.
C6_TimestampOmitted ==
    (Parsed /\ HasKnownReason(body.v) /\ ~HasKey(body.v, "timestamp")) =>
        /\ parsed.v.ok
        /\ parsed.v.value = ErrorBody(VariantOfWire(ValueOf(body.v, "reason").s), None)

C6_Witness ==
    /\ Parsed
    /\ body.v = <<Field("reason", JString("Unregistered"))>>
    /\ parsed.v = Ok(ErrorBody("ErrorReason::Unregistered", None))

\* C7 as stated: a body whose timestamp is there and is no unsigned integer
\* fails.
C7_Stated ==
    (Parsed /\ HasKey(body.v, "timestamp")
        /\ ~IsUnsignedInteger(ValueOf(body.v, "timestamp"))) =>
        ~parsed.v.ok

\* C7, amended: a body whose timestamp is there and is neither an unsigned
\* 64-bit integer nor null fails, even with a valid reason, and gives no
\* value; a null timestamp is read as None.
C7_BadTimestampFails ==
    /\ (Parsed /\ BadTimestamp(body.v)) =>
          ~parsed.v.ok /\ "value" \notin DOMAIN parsed.v
    /\ (Parsed /\ HasKnownReason(body.v) /\ HasKey(body.v, "timestamp")
           /\ ValueOf(body.v, "timestamp").t = "null") =>
          /\ parsed.v.ok
          /\ parsed.v.value.timestamp = None

C7_Witness ==
    /\ Parsed
    /\ HasKnownReason(body.v)
    /\ HasKey(body.v, "timestamp")
    /\ ValueOf(body.v, "timestamp") = JString("1508249865488")
    /\ ~parsed.v.ok

\* C8: every one of the 28 variants has an arm of Display; the text shown
\* for a reason is not empty and is the text of no other variant.
C8_DisplayInjective ==
    /\ Cardinality(Variants) = 28
    /\ \A r \in Variants : \E a \in DOMAIN DisplayArms : DisplayArms[a].variant = r
    /\ shown.some =>
          /\ shown.v.text # ""
          /\ \A r \in Variants \ {shown.v.reason} : Display(r) # shown.v.text

C8_Witness ==
    /\ pc = "shown"
    /\ shown.some
    /\ shown.v.reason = "ErrorReason::BadTopic"
    /\ shown.v.text = "The 'apns_topic' in 'NotificationOptions' is bad."

\* The fields of a body whose key is reason or timestamp.
WithoutUnknownKeys(fields) ==
    SelectSeq(fields, LAMBDA f : f.key \in {"reason", "timestamp"})

\* C10: the keys other than reason and timestamp are ignored: a body parses
\* to what the body without them parses to, and with a known reason and a
\* timestamp that is absent, null or an unsigned 64-bit integer it parses.
C10_UnknownKeysIgnored ==
    Parsed =>
        /\ parsed.v = from_str(WithoutUnknownKeys(body.v))
        /\ (HasKnownReason(body.v) /\ ~BadTimestamp(body.v)) => parsed.v.ok

C10_Witness ==
    /\ Parsed
    /\ HasKnownReason(body.v)
    /\ \E k \in ExtraKeys : HasKey(body.v, k)
    /\ WithoutUnknownKeys(body.v) # body.v
    /\ parsed.v.ok

============================================================================
